---- MODULE Spec2Model ----
(***************************************************************************)
(* Model of umus_ftp/core.py: session resolution, the single-item path     *)
(* operations (ls, is_dir, mkdirs, download, upload, tree), the Ftp        *)
(* context manager and the batch engine (_ftp_multiple and its workers).   *)
(*                                                                         *)
(* A Python path string is modelled by the sequence str.split('/') gives:  *)
(*   "a/b" = <<"a","b">>   "/a" = <<"","a">>   "" = <<"">>   "/" = <<"","">>*)
(* A directory or file of a server (or of the local disk) is named by its  *)
(* canonical path: the sequence of its non-empty segments from the root.   *)
(***************************************************************************)
EXTENDS Integers, Sequences, FiniteSets, TLC

VARIABLES world, last, prev, nops,
          mainpc, call, items, loaded, qbuf, pipe, poolState,
          pc, wsess, wdata, wi, wresult, result, succ, takenBy

vars == <<world, last, prev, nops,
          mainpc, call, items, loaded, qbuf, pipe, poolState,
          pc, wsess, wdata, wi, wresult, result, succ, takenBy>>

opsVars   == <<last, prev, nops>>
batchVars == <<mainpc, call, items, loaded, qbuf, pipe, poolState,
               pc, wsess, wdata, wi, wresult, result, succ, takenBy>>

-----------------------------------------------------------------------------
(* Bounds *)

Connections == 2      \* CFG['connections'] of the modelled run
Retries     == 2      \* CFG['retries'] of the modelled run
NItems      == 2      \* size of the files dict of the modelled batch
MaxOps      == 2      \* single-item calls made in a row by the caller
MaxQuits    == 2      \* quit() calls counted per session

NSess == 2 + MaxOps + Connections + NItems * (Retries + 1)
SessionIds == 1 .. NSess

-----------------------------------------------------------------------------
(* Values *)

NoFtp    == 0          \* ftp=None
NoServer == "None"     \* server=None
NoLogin  == <<>>       \* login=None ; a given login is <<descriptor>>
None     == "None"

\* CFG['server'], decrypted: name -> login descriptor ('tls' may be absent)
CFG_server ==
  [main |-> [host |-> "main", tls |-> "absent"],
   alt  |-> [host |-> "alt",  tls |-> "false"]]

Hosts == {"main", "alt"}

\* kinds of protocol command / local call the environment can make fail
Faults == {"none", "PWD", "CWD", "NLST", "MKD", "TYPE", "RETR", "STOR",
           "open"}

Ok(w, ret)  == [w |-> w, ret |-> ret,  exc |-> "none"]
Raise(w, e) == [w |-> w, ret |-> None, exc |-> e]

-----------------------------------------------------------------------------
(* Paths *)

IsAbs(p)   == Len(p) >= 2 /\ p[1] = ""
Strip(p)   == SelectSeq(p, LAMBDA x : x # "")
Canon(cwd, p) == IF IsAbs(p) THEN Strip(p) ELSE cwd \o Strip(p)
Parent(c)  == IF Len(c) = 0 THEN c ELSE SubSeq(c, 1, Len(c) - 1)
Truthy(p)  == p # <<"">>                      \* bool('/'.join(p))

\* path + '/' + name, as a server lists the children of path
Join(p, n) ==
  IF p = <<"">> THEN <<n>>
  ELSE IF p[Len(p)] = "" THEN [p EXCEPT ![Len(p)] = n]
  ELSE Append(p, n)

\* dst.rsplit('/', 1)[0]
rsplit0(p) == IF Len(p) = 1 THEN p ELSE SubSeq(p, 1, Len(p) - 1)

\* os.path.dirname(dst)
dirname(p) == IF Len(p) = 1 THEN <<"">> ELSE SubSeq(p, 1, Len(p) - 1)

Names == <<"a", "b", "f", "g">>               \* listing order of a server

-----------------------------------------------------------------------------
(* The world: sessions, the servers' file systems, the local disk, the     *)
(* commands issued by the running call, the failure the environment will   *)
(* inject into it.                                                         *)

FreeIds(w) == {s \in SessionIds : w.sess[s].st = "unused"}
NewId(w)   == CHOOSE s \in FreeIds(w) : \A t \in FreeIds(w) : s <= t

Log(w, s, c, a) ==
  [w EXCEPT !.log = Append(@, [s |-> s, cmd |-> c, arg |-> a])]

\* what happens to a command sent on session s
Send(w, s, c) ==
  IF w.sess[s].st # "open" THEN "closed"
  ELSE IF w.fault = c THEN "temp" ELSE "go"

Spend(w) == [w EXCEPT !.fault = "none"]

SetFile(f, p, c) == [q \in DOMAIN f \cup {p} |-> IF q = p THEN c ELSE f[q]]

\* FTP(host, user, passwd) / FTP_TLS(...): a new authenticated session
get_ftp(w, login) ==
  LET s  == NewId(w)
      w1 == [w EXCEPT !.sess[s] =
               [st |-> "open", quits |-> 0, cwd |-> <<>>,
                srv |-> login.host, tls |-> (login.tls # "false"),
                owned |-> TRUE]]
  IN Ok(Log(w1, s, "CONNECT", <<login.host>>), s)

get_ftp_from_config(w, server) ==
  IF server \notin DOMAIN CFG_server THEN Raise(w, "KeyError")
  ELSE get_ftp(w, CFG_server[server])

\* the absolute path string of a canonical path: "/" for the root
PathOf(c) == IF c = <<>> THEN <<"", "">> ELSE <<"">> \o c

\* ftplib commands ---------------------------------------------------------

pwd(w, s) ==
  CASE Send(w, s, "PWD") = "closed" -> Raise(w, "closed")
    [] Send(w, s, "PWD") = "temp"   -> Raise(Spend(Log(w, s, "PWD", <<>>)), "error_temp")
    [] OTHER -> Ok(Log(w, s, "PWD", <<>>), PathOf(w.sess[s].cwd))

cwd(w, s, p) ==
  LET c  == Canon(w.sess[s].cwd, p)
      w1 == Log(w, s, "CWD", p)
  IN CASE Send(w, s, "CWD") = "closed" -> Raise(w, "closed")
       [] Send(w, s, "CWD") = "temp"   -> Raise(Spend(w1), "error_temp")
       [] OTHER ->
            IF c \in w.rdirs[w.sess[s].srv]
            THEN Ok([w1 EXCEPT !.sess[s].cwd = c], None)
            ELSE Raise(w1, "error_perm")

Children(w, srv, c) ==
  SelectSeq(Names, LAMBDA n :
     Append(c, n) \in w.rdirs[srv] \/ Append(c, n) \in DOMAIN w.rfiles[srv])

Prefixed(p, ns) == [i \in 1 .. Len(ns) |-> Join(p, ns[i])]

nlst(w, s, p) ==
  LET srv == w.sess[s].srv
      c   == Canon(w.sess[s].cwd, p)
      w1  == Log(w, s, "NLST", p)
  IN CASE Send(w, s, "NLST") = "closed" -> Raise(w, "closed")
       [] Send(w, s, "NLST") = "temp"   -> Raise(Spend(w1), "error_temp")
       [] OTHER ->
            IF c \in w.rdirs[srv] THEN Ok(w1, Prefixed(p, Children(w, srv, c)))
            ELSE IF c \in DOMAIN w.rfiles[srv] THEN Ok(w1, <<p>>)
            ELSE Ok(w1, <<>>)

mkd(w, s, p) ==
  LET srv == w.sess[s].srv
      c   == Canon(w.sess[s].cwd, p)
      w1  == Log(w, s, "MKD", p)
  IN CASE Send(w, s, "MKD") = "closed" -> Raise(w, "closed")
       [] Send(w, s, "MKD") = "temp"   -> Raise(Spend(w1), "error_temp")
       [] OTHER ->
            IF /\ Parent(c) \in w.rdirs[srv]
               /\ c \notin w.rdirs[srv]
               /\ c \notin DOMAIN w.rfiles[srv]
            THEN Ok([w1 EXCEPT !.rdirs[srv] = @ \cup {c}], None)
            ELSE Raise(w1, "error_perm")

voidcmd_TYPE_I(w, s) ==
  CASE Send(w, s, "TYPE") = "closed" -> Raise(w, "closed")
    [] Send(w, s, "TYPE") = "temp"   -> Raise(Spend(Log(w, s, "TYPE", <<>>)), "error_temp")
    [] OTHER -> Ok(Log(w, s, "TYPE", <<>>), None)

\* retrbinary('RETR src', f.write), f the local file lp opened 'wb'
retrbinary(w, s, p, lp) ==
  LET srv == w.sess[s].srv
      c   == Canon(w.sess[s].cwd, p)
      w1  == Log(w, s, "RETR", p)
  IN CASE Send(w, s, "RETR") = "closed" -> Raise(w, "closed")
       [] Send(w, s, "RETR") = "temp"   ->
            Raise([Spend(w1) EXCEPT !.lfiles = SetFile(@, lp, "partial")], "error_temp")
       [] OTHER ->
            IF c \in DOMAIN w.rfiles[srv]
            THEN Ok([w1 EXCEPT !.lfiles = SetFile(@, lp, w.rfiles[srv][c])], None)
            ELSE Raise(w1, "error_perm")

\* storbinary('STOR dst', f), f the local file opened 'rb' with content
storbinary(w, s, p, content) ==
  LET srv == w.sess[s].srv
      c   == Canon(w.sess[s].cwd, p)
      w1  == Log(w, s, "STOR", p)
  IN CASE Send(w, s, "STOR") = "closed" -> Raise(w, "closed")
       [] Send(w, s, "STOR") = "temp"   ->
            IF Parent(c) \in w.rdirs[srv] /\ c \notin w.rdirs[srv] /\ Len(c) > 0
            THEN Raise([Spend(w1) EXCEPT !.rfiles[srv] = SetFile(@, c, "partial")], "error_temp")
            ELSE Raise(Spend(w1), "error_temp")
       [] OTHER ->
            IF Parent(c) \in w.rdirs[srv] /\ c \notin w.rdirs[srv] /\ Len(c) > 0
            THEN Ok([w1 EXCEPT !.rfiles[srv] = SetFile(@, c, content)], None)
            ELSE Raise(w1, "error_perm")

\* ftp.quit(): voidcmd('QUIT') then close(); on a session already quit the
\* command cannot be sent and the call raises
\* (the count of quit() calls on a session is kept up to MaxQuits)
Bump(n) == IF n < MaxQuits THEN n + 1 ELSE n
quit(w, s) ==
  IF w.sess[s].st # "open"
  THEN Raise([w EXCEPT !.sess[s].quits = Bump(@)], "closed")
  ELSE Ok([Log(w, s, "QUIT", <<>>) EXCEPT !.sess[s].quits = Bump(@),
                                          !.sess[s].st = "closed"], None)

\* open(path, 'rb') on the local disk
open_rb(w, lp) ==
  LET w1 == Log(w, 0, "open", lp)
  IN CASE w.fault = "open" -> Raise(Spend(w1), "OSError")
       [] lp \notin DOMAIN w.lfiles -> Raise(w1, "OSError")
       [] OTHER -> Ok(w1, w.lfiles[lp])

\* open(path, 'wb') on the local disk: creates or truncates the file
open_wb(w, lp) ==
  LET w1 == Log(w, 0, "open", lp)
  IN CASE w.fault = "open" -> Raise(Spend(w1), "OSError")
       [] Parent(lp) \notin w.ldirs \/ lp \in w.ldirs -> Raise(w1, "OSError")
       [] OTHER -> Ok([w1 EXCEPT !.lfiles = SetFile(@, lp, "empty")], None)

\* os.makedirs(d): every missing ancestor and d itself
Ancestors(c) == {SubSeq(c, 1, i) : i \in 0 .. Len(c)}
os_makedirs(w, d) ==
  IF d = <<"">> \/ Strip(d) \in w.ldirs
     \/ \E a \in Ancestors(Strip(d)) : a \in DOMAIN w.lfiles
  THEN Raise(w, "OSError")
  ELSE Ok([w EXCEPT !.ldirs = @ \cup Ancestors(Strip(d))], None)

os_path_isfile(w, p) == Strip(p) \in DOMAIN w.lfiles
os_path_exists(w, p) ==
  p # <<"">> /\ (Strip(p) \in w.ldirs \/ Strip(p) \in DOMAIN w.lfiles)

-----------------------------------------------------------------------------
(* Session resolution *)

\* a decorator that looks at login before server
ftp_object_login_first(w, ftp, server, login) ==
  IF ftp # NoFtp THEN Ok(w, ftp)
  ELSE IF login # NoLogin THEN get_ftp(w, login[1])
  ELSE IF server # NoServer THEN get_ftp_from_config(w, server)
  ELSE get_ftp_from_config(w, "main")

\* ftp_object.decorate: the session the decorated function runs on
ftp_object(w, ftp, server, login) ==
  IF ftp # NoFtp THEN Ok(w, ftp)
  ELSE IF server # NoServer THEN get_ftp_from_config(w, server)
  ELSE IF login # NoLogin THEN get_ftp(w, login[1])
  ELSE get_ftp_from_config(w, "main")

\* Ftp.__init__
Ftp_init(w, ftp, server, login) ==
  IF ftp # NoFtp THEN Ok(w, ftp)
  ELSE IF server # NoServer THEN get_ftp_from_config(w, server)
  ELSE IF login # NoLogin THEN get_ftp(w, login[1])
  ELSE get_ftp_from_config(w, "main")

\* a guard that leaves without quitting
Ftp_exit_noquit(w, s) == Ok(w, None)

\* Ftp.__exit__
Ftp_exit(w, s) == quit(w, s)

-----------------------------------------------------------------------------
(* Path operations *)

\* a call that raised leaves the function with its exception; otherwise the
\* rest k of the body runs on what the call returned
Then(r, k(_)) == IF r.exc # "none" THEN r ELSE k(r)
\* the rest k of the body runs on the outcome v of a call, raised or not
With(v, k(_)) == k(v)

ls(w, path, ftp, server, login, close) ==
  Then(ftp_object(w, ftp, server, login), LAMBDA r0 :
  Then(nlst(r0.w, r0.ret, path), LAMBDA r1 :
  IF ~close THEN r1 ELSE
  Then(quit(r1.w, r0.ret), LAMBDA r2 : Ok(r2.w, r1.ret))))

\* is_dir that leaves the cursor where the probe put it
is_dir_body_norestore(w, s, path, close) ==
  Then(pwd(w, s), LAMBDA r1 :
  With(cwd(r1.w, s, path), LAMBDA r2 :
  IF r2.exc = "error_perm" THEN
     (IF ~close THEN Ok(r2.w, FALSE)
      ELSE Then(quit(r2.w, s), LAMBDA r3 : Ok(r3.w, FALSE)))
  ELSE IF r2.exc # "none" THEN r2 ELSE
  IF ~close THEN Ok(r2.w, TRUE)
  ELSE Then(quit(r2.w, s), LAMBDA r5 : Ok(r5.w, TRUE))))

\* the body of is_dir on the resolved session s (r1.ret is current)
is_dir_body(w, s, path, close) ==
  Then(pwd(w, s), LAMBDA r1 :
  With(cwd(r1.w, s, path), LAMBDA r2 :
  IF r2.exc = "error_perm" THEN
     (IF ~close THEN Ok(r2.w, FALSE)
      ELSE Then(quit(r2.w, s), LAMBDA r3 : Ok(r3.w, FALSE)))
  ELSE IF r2.exc # "none" THEN r2 ELSE
  Then(cwd(r2.w, s, r1.ret), LAMBDA r4 :
  IF ~close THEN Ok(r4.w, TRUE)
  ELSE Then(quit(r4.w, s), LAMBDA r5 : Ok(r5.w, TRUE)))))

is_dir(w, path, ftp, server, login, close) ==
  Then(ftp_object(w, ftp, server, login), LAMBDA r0 :
  is_dir_body(r0.w, r0.ret, path, close))

\* mkdirs that makes the whole path with one command
mkdirs_loop_leaf(w, s, dirs, i) == mkd(w, s, dirs)

\* mkdirs that makes every prefix without probing it first
RECURSIVE mkdirs_loop_noprobe(_, _, _, _)
mkdirs_loop_noprobe(w, s, dirs, i) ==
  IF i > Len(dirs) THEN Ok(w, None) ELSE
  IF ~Truthy(SubSeq(dirs, 1, i)) THEN mkdirs_loop_noprobe(w, s, dirs, i + 1) ELSE
  Then(mkd(w, s, SubSeq(dirs, 1, i)), LAMBDA r2 :
  mkdirs_loop_noprobe(r2.w, s, dirs, i + 1))

\* the loop of mkdirs from index i on; dir is SubSeq(dirs, 1, i)
RECURSIVE mkdirs_loop(_, _, _, _)
mkdirs_loop(w, s, dirs, i) ==
  IF i > Len(dirs) THEN Ok(w, None) ELSE
  IF ~Truthy(SubSeq(dirs, 1, i)) THEN mkdirs_loop(w, s, dirs, i + 1) ELSE
  Then(is_dir(w, SubSeq(dirs, 1, i), s, NoServer, NoLogin, FALSE), LAMBDA r1 :
  IF r1.ret THEN mkdirs_loop(r1.w, s, dirs, i + 1) ELSE
  Then(mkd(r1.w, s, SubSeq(dirs, 1, i)), LAMBDA r2 :
  mkdirs_loop(r2.w, s, dirs, i + 1)))

mkdirs(w, path, ftp, server, login, close) ==
  Then(ftp_object(w, ftp, server, login), LAMBDA r0 :
  mkdirs_loop(r0.w, r0.ret, path, 1))

\* download that never looks whether dst is there
download_nocheck(w, src, dst, force, makedirs, ftp, server, login, close) ==
  Then(ftp_object(w, ftp, server, login), LAMBDA r0 :
  Then(voidcmd_TYPE_I(r0.w, r0.ret), LAMBDA r1 :
  Then(IF ~os_path_exists(r1.w, dirname(dst)) /\ makedirs
       THEN os_makedirs(r1.w, dirname(dst)) ELSE Ok(r1.w, None), LAMBDA r3 :
  Then(open_wb(r3.w, Strip(dst)), LAMBDA r4 :
  Then(retrbinary(r4.w, r0.ret, src, Strip(dst)), LAMBDA r5 :
  IF ~close THEN r5 ELSE quit(r5.w, r0.ret))))))

download(w, src, dst, force, makedirs, ftp, server, login, close) ==
  Then(ftp_object(w, ftp, server, login), LAMBDA r0 :
  Then(voidcmd_TYPE_I(r0.w, r0.ret), LAMBDA r1 :
  IF os_path_isfile(r1.w, dst) /\ ~force THEN
     (IF ~close THEN Raise(r1.w, "FileExistsError")
      ELSE Then(quit(r1.w, r0.ret), LAMBDA r2 : Raise(r2.w, "FileExistsError")))
  ELSE
  Then(IF ~os_path_exists(r1.w, dirname(dst)) /\ makedirs
       THEN os_makedirs(r1.w, dirname(dst)) ELSE Ok(r1.w, None), LAMBDA r3 :
  Then(open_wb(r3.w, Strip(dst)), LAMBDA r4 :
  Then(retrbinary(r4.w, r0.ret, src, Strip(dst)), LAMBDA r5 :
  IF ~close THEN r5 ELSE quit(r5.w, r0.ret))))))

\* (dir is rsplit0(dst); is_dir(dir) is called without the session)
upload(w, src, dst, force, makedirs, ftp, server, login, close) ==
  Then(ftp_object(w, ftp, server, login), LAMBDA r0 :
  Then(IF ~force THEN ls(r0.w, dst, r0.ret, NoServer, NoLogin, FALSE)
       ELSE Ok(r0.w, <<>>), LAMBDA r1 :
  IF ~force /\ r1.ret # <<>> THEN
     (IF ~close THEN Raise(r1.w, "FileExistsError")
      ELSE Then(quit(r1.w, r0.ret), LAMBDA r2 : Raise(r2.w, "FileExistsError")))
  ELSE
  Then(IF makedirs THEN is_dir(r1.w, rsplit0(dst), NoFtp, NoServer, NoLogin, TRUE)
       ELSE Ok(r1.w, TRUE), LAMBDA r3 :
  Then(IF makedirs /\ ~r3.ret
       THEN mkdirs(r3.w, rsplit0(dst), r0.ret, NoServer, NoLogin, FALSE)
       ELSE Ok(r3.w, None), LAMBDA r4 :
  Then(ls(r4.w, dst, r0.ret, NoServer, NoLogin, FALSE), LAMBDA r5 :
  Then(voidcmd_TYPE_I(r5.w, r0.ret), LAMBDA r6 :
  Then(open_rb(r6.w, Strip(src)), LAMBDA r7 :
  Then(storbinary(r7.w, r0.ret, dst, r7.ret), LAMBDA r8 :
  IF ~close THEN r8 ELSE quit(r8.w, r0.ret)))))))))

\* pattern and re.search(pattern, path) or not pattern; a pattern is a
\* literal one-segment text, <<>> is pattern=None
NoPattern == <<>>
Matches(pattern, path) ==
  pattern = NoPattern \/ \E i \in 1 .. Len(path) : path[i] = pattern[1]

\* tree that yields the files src lists, without descending
RECURSIVE tree_loop_flat(_, _, _, _, _, _, _)
tree_loop_flat(w, s, paths, i, pattern, depth, acc) ==
  IF i > Len(paths) THEN Ok(w, acc) ELSE
  Then(is_dir(w, paths[i], s, NoServer, NoLogin, FALSE), LAMBDA r1 :
  tree_loop_flat(r1.w, s, paths, i + 1, pattern, depth,
                 IF ~r1.ret /\ Matches(pattern, paths[i])
                 THEN Append(acc, paths[i]) ELSE acc))

\* tree, run to exhaustion: ret is the sequence of yielded paths
RECURSIVE tree(_, _, _, _, _, _, _), tree_loop(_, _, _, _, _, _, _)
tree_loop(w, s, paths, i, pattern, depth, acc) ==
  IF i > Len(paths) THEN Ok(w, acc) ELSE
  Then(is_dir(w, paths[i], s, NoServer, NoLogin, FALSE), LAMBDA r1 :
  IF r1.ret THEN
     Then(tree(r1.w, paths[i], pattern, s, NoServer, NoLogin, depth + 1),
          LAMBDA r2 :
          tree_loop(r2.w, s, paths, i + 1, pattern, depth, acc \o r2.ret))
  ELSE tree_loop(r1.w, s, paths, i + 1, pattern, depth,
                 IF Matches(pattern, paths[i]) THEN Append(acc, paths[i])
                 ELSE acc))

tree(w, src, pattern, ftp, server, login, depth) ==
  Then(ftp_object(w, ftp, server, login), LAMBDA r0 :
  Then(ls(r0.w, src, r0.ret, NoServer, NoLogin, FALSE), LAMBDA r1 :
  Then(tree_loop(r1.w, r0.ret, r1.ret, 1, pattern, depth, <<>>), LAMBDA r2 :
  IF depth # 0 THEN r2 ELSE
  Then(quit(r2.w, r0.ret), LAMBDA r3 : Ok(r3.w, r2.ret)))))

\* with Ftp(ftp, server, login) as f: ls(path, f, close=False)
with_Ftp(w, path, ftp, server, login) ==
  Then(Ftp_init(w, ftp, server, login), LAMBDA r0 :
  With(ls(r0.w, path, r0.ret, NoServer, NoLogin, FALSE), LAMBDA r1 :
  Then(Ftp_exit(r1.w, r0.ret), LAMBDA r2 : [r1 EXCEPT !.w = r2.w])))

-----------------------------------------------------------------------------
(* Initial worlds *)

A  == <<"a">>
AB == <<"a", "b">>
Root == <<>>

NoSession == [st |-> "unused", quits |-> 0, cwd |-> Root, srv |-> "main",
              tls |-> TRUE, owned |-> FALSE]

\* session 1 is the session a caller opened beforehand and passes as ftp=
Supplied == 1
CallerSession(srv, d) ==
  [st |-> "open", quits |-> 0, cwd |-> d, srv |-> srv, tls |-> TRUE,
   owned |-> FALSE]

EmptyFiles == [q \in {} |-> "x"]
File(p, c) == [q \in {p} |-> c]

RemoteInits ==
  { [dirs |-> {Root},        files |-> EmptyFiles],
    [dirs |-> {Root},        files |-> File(<<"f">>, "r1")],
    [dirs |-> {Root},        files |-> File(A, "r1")],
    [dirs |-> {Root, A},     files |-> EmptyFiles],
    [dirs |-> {Root, A},     files |-> File(<<"a", "f">>, "r1")],
    [dirs |-> {Root, A, AB}, files |-> File(<<"a", "b", "f">>, "r1")] }

AltInits ==
  { [dirs |-> {Root},    files |-> EmptyFiles],
    [dirs |-> {Root, A}, files |-> File(<<"a", "f">>, "r2")] }

L  == <<"l">>
LX == <<"l", "x">>
LocalInits ==
  { [dirs |-> {Root, L}, files |-> File(LX, "c1")],
    [dirs |-> {Root, L}, files |-> SetFile(File(LX, "c1"), <<"l", "f">>, "c2")],
    [dirs |-> {Root},    files |-> EmptyFiles] }

World(rm, ra, lc, srv, d) ==
  [sess   |-> [s \in SessionIds |->
                 IF s = Supplied THEN CallerSession(srv, d) ELSE NoSession],
   rdirs  |-> [main |-> rm.dirs,  alt |-> ra.dirs],
   rfiles |-> [main |-> rm.files, alt |-> ra.files],
   ldirs  |-> lc.dirs,
   lfiles |-> lc.files,
   log    |-> <<>>,
   fault  |-> "none"]

Worlds ==
  { World(rm, ra, lc, srv, d) :
      rm \in RemoteInits, ra \in AltInits, lc \in LocalInits,
      srv \in Hosts, d \in {Root, A} }

InitWorlds ==
  { w \in Worlds : w.sess[Supplied].cwd \in w.rdirs[w.sess[Supplied].srv] }

\* the world at the start of a call: nothing issued yet, f the failure the
\* environment injects into it
StartCall(w, f) == [w EXCEPT !.log = <<>>, !.fault = f]

-----------------------------------------------------------------------------
(* Single calls made by a caller                                           *)

\* the ways a caller names the session: ftp=, server=, login=, or nothing
AltLogin == [host |-> "alt", tls |-> "false"]
ArgModes ==
  { [ftp |-> Supplied, server |-> NoServer, login |-> NoLogin],
    [ftp |-> NoFtp,    server |-> "alt",    login |-> NoLogin],
    [ftp |-> NoFtp,    server |-> NoServer, login |-> <<AltLogin>>],
    [ftp |-> NoFtp,    server |-> NoServer, login |-> NoLogin] }

NoArgs ==
  [path |-> <<"">>, src |-> <<"">>, dst |-> <<"">>, force |-> FALSE,
   makedirs |-> FALSE, pattern |-> NoPattern, close |-> TRUE,
   ftp |-> NoFtp, server |-> NoServer, login |-> NoLogin]

WithMode(a, m) ==
  [a EXCEPT !.ftp = m.ftp, !.server = m.server, !.login = m.login]

Apply(op, a, w) ==
  CASE op = "ls"       -> ls(w, a.path, a.ftp, a.server, a.login, a.close)
    [] op = "is_dir"   -> is_dir(w, a.path, a.ftp, a.server, a.login, a.close)
    [] op = "mkdirs"   -> mkdirs(w, a.path, a.ftp, a.server, a.login, a.close)
    [] op = "download" -> download(w, a.src, a.dst, a.force, a.makedirs,
                                   a.ftp, a.server, a.login, a.close)
    [] op = "upload"   -> upload(w, a.src, a.dst, a.force, a.makedirs,
                                 a.ftp, a.server, a.login, a.close)
    [] op = "tree"     -> tree(w, a.src, a.pattern, a.ftp, a.server, a.login, 0)
    [] op = "with_Ftp" -> with_Ftp(w, a.path, a.ftp, a.server, a.login)

\* what the caller has after a call that started in w0 and ended as r
Keep(op, a, f, w0, r) ==
  /\ world' = r.w
  /\ last'  = [op |-> op, a |-> a, fault |-> f,
               bool |-> IF op = "is_dir" /\ r.exc = "none"
                        THEN r.ret ELSE FALSE,
               list |-> IF op \in {"ls", "tree", "with_Ftp"} /\ r.exc = "none"
                        THEN r.ret ELSE <<>>,
               exc |-> r.exc, pre |-> w0]
  /\ prev'  = last
  /\ nops'  = nops + 1
  /\ UNCHANGED batchVars

Call(op, a, f) ==
  Keep(op, a, f, StartCall(world, f), Apply(op, a, StartCall(world, f)))

LsPaths    == { <<"a">>, <<"", "a">>, <<"f">>, <<"", "">> }
DirPaths   == { <<"a">>, <<"a", "b">>, <<"", "a">>, <<"f">>, <<"">> }
MkPaths    == { <<"a">>, <<"a", "b">>, <<"", "a", "b">>, <<"b", "">> }
TreeRoots  == { <<"", "">>, <<"a">> }
RemoteSrcs == { <<"", "a", "f">>, <<"f">> }
LocalDsts  == { <<"", "l", "f">>, <<"", "m", "f">> }
LocalSrcs  == { <<"", "l", "x">> }
RemoteDsts == { <<"f">>, <<"", "a", "f">>, <<"", "a", "b", "f">> }
Patterns   == { NoPattern, <<"f">> }

ls_call ==
  /\ nops = 0
  /\ \E p \in LsPaths, m \in ArgModes, c \in BOOLEAN, f \in {"none", "NLST"} :
     Call("ls", WithMode([NoArgs EXCEPT !.path = p, !.close = c], m), f)

is_dir_call ==
  /\ nops = 0
  /\ \E p \in DirPaths, m \in ArgModes, c \in BOOLEAN,
     f \in {"none", "PWD", "CWD"} :
     Call("is_dir", WithMode([NoArgs EXCEPT !.path = p, !.close = c], m), f)

mkdirs_call ==
  /\ nops = 0
  /\ \E p \in MkPaths, m \in ArgModes, c \in BOOLEAN,
     f \in {"none", "PWD", "CWD", "MKD"} :
     Call("mkdirs", WithMode([NoArgs EXCEPT !.path = p, !.close = c], m), f)

download_call ==
  /\ nops = 0
  /\ \E sp \in RemoteSrcs, dp \in LocalDsts, fo \in BOOLEAN, mk \in BOOLEAN,
     m \in ArgModes, c \in BOOLEAN, f \in {"none", "TYPE", "open", "RETR"} :
     Call("download",
          WithMode([NoArgs EXCEPT !.src = sp, !.dst = dp, !.force = fo,
                                  !.makedirs = mk, !.close = c], m), f)

upload_call ==
  /\ nops = 0
  /\ \E sp \in LocalSrcs, dp \in RemoteDsts, fo \in BOOLEAN, mk \in BOOLEAN,
     m \in ArgModes, c \in BOOLEAN,
     f \in {"none", "NLST", "PWD", "CWD", "MKD", "TYPE", "open", "STOR"} :
     Call("upload",
          WithMode([NoArgs EXCEPT !.src = sp, !.dst = dp, !.force = fo,
                                  !.makedirs = mk, !.close = c], m), f)

tree_call ==
  /\ nops = 0
  /\ \E sp \in TreeRoots, pt \in Patterns, m \in ArgModes,
     f \in {"none", "NLST", "CWD"} :
     Call("tree", WithMode([NoArgs EXCEPT !.src = sp, !.pattern = pt], m), f)

with_Ftp_call ==
  /\ nops = 0
  /\ \E p \in LsPaths, m \in ArgModes, f \in {"none", "NLST"} :
     Call("with_Ftp", WithMode([NoArgs EXCEPT !.path = p], m), f)

\* the caller makes the call it has just made once more (last.bool and
\* last.list hold what is_dir, resp. ls/tree, returned)
again_call ==
  /\ nops >= 1 /\ nops < MaxOps
  /\ Call(last.op, last.a, "none")

NoCall == [op |-> "none", a |-> NoArgs, fault |-> "none", bool |-> FALSE,
           list |-> <<>>, exc |-> "none", pre |-> World(CHOOSE r \in RemoteInits : TRUE,
                                         CHOOSE r \in AltInits : TRUE,
                                         CHOOSE l \in LocalInits : TRUE,
                                         "main", Root)]

BatchIdle ==
  /\ mainpc = "idle" /\ call = NoArgs /\ items = <<>> /\ loaded = 0
  /\ qbuf = <<>> /\ pipe = <<>> /\ poolState = "none"
  /\ pc = [w \in 1 .. Connections |-> "none"]
  /\ wsess = [w \in 1 .. Connections |-> NoFtp]
  /\ wdata = [w \in 1 .. Connections |-> 0]
  /\ wi = [w \in 1 .. Connections |-> 0]
  /\ wresult = [w \in 1 .. Connections |-> <<>>]
  /\ result = <<>>
  /\ succ = <<>> /\ takenBy = <<>>

OpsInit ==
  /\ world \in InitWorlds
  /\ last = NoCall /\ prev = NoCall /\ nops = 0
  /\ BatchIdle

OpsNext ==
  \/ ls_call \/ is_dir_call \/ mkdirs_call \/ download_call \/ upload_call
  \/ tree_call \/ with_Ftp_call \/ again_call

OpsSpec == OpsInit /\ [][OpsNext]_vars

-----------------------------------------------------------------------------
(* Calls that give any combination of ftp=, server= and login=              *)

MainLogin == [host |-> "main", tls |-> "false"]

ArgCombos ==
  { [ftp |-> f, server |-> sv, login |-> lg] :
      f \in {NoFtp, Supplied}, sv \in {NoServer, "alt", "main"},
      lg \in {NoLogin, <<AltLogin>>, <<MainLogin>>} }

\* a decorated function called with the combination m
ls_args_call ==
  /\ nops = 0
  /\ \E m \in ArgCombos, c \in BOOLEAN, f \in {"none", "NLST"} :
     Call("ls", WithMode([NoArgs EXCEPT !.path = A, !.close = c], m), f)

\* the Ftp guard entered with the combination m
with_Ftp_args_call ==
  /\ nops = 0
  /\ \E m \in ArgCombos, f \in {"none", "NLST"} :
     Call("with_Ftp", WithMode([NoArgs EXCEPT !.path = A], m), f)

ResolveNext == ls_args_call \/ with_Ftp_args_call

ResolveSpec == OpsInit /\ [][ResolveNext]_vars

-----------------------------------------------------------------------------
(* Walks of remote trees that hold several files at several depths *)

AA == <<"a", "a">>

TreeRemotes ==
  { [dirs |-> {Root, A, AB},
     files |-> SetFile(SetFile(SetFile(File(<<"f">>, "r1"), <<"a", "f">>, "r2"),
                               <<"a", "g">>, "r3"), <<"a", "b", "f">>, "r4")],
    [dirs |-> {Root, A, AA, AB},
     files |-> SetFile(File(<<"a", "a", "f">>, "r1"), <<"a", "g">>, "r2")],
    [dirs |-> {Root, A, AB}, files |-> File(<<"g">>, "r1")] }

TreeWorlds ==
  { World(rm, ra, CHOOSE l \in LocalInits : l.files = EmptyFiles, srv, d) :
      rm \in TreeRemotes, ra \in AltInits, srv \in Hosts, d \in {Root, A} }

TreeInit ==
  /\ world \in { w \in TreeWorlds :
                   w.sess[Supplied].cwd \in w.rdirs[w.sess[Supplied].srv] }
  /\ last = NoCall /\ prev = NoCall /\ nops = 0
  /\ BatchIdle

TreeNext == tree_call

TreeSpec == TreeInit /\ [][TreeNext]_vars

-----------------------------------------------------------------------------
(* The batch engine: _ftp_multiple, the Pool of worker processes running   *)
(* _ftp_worker_upload / _ftp_worker_download as their initializer, and the *)
(* multiprocessing.Queue between them (put() appends to a buffer that a    *)
(* feeder thread of the parent flushes into the pipe; empty() and get()    *)
(* look at the pipe).                                                      *)

Workers == 1 .. Connections
ItemIds == 1 .. NItems

ItemNames == <<"f", "g", "a", "b">>
Contents  == <<"c1", "c2", "c3", "c4">>

\* files.items(): item k of an upload, resp. download, batch
ItemOf(typ, k) ==
  IF typ = "upload"
  THEN [src |-> <<"", "l", ItemNames[k]>>, dst |-> <<"", "a", ItemNames[k]>>]
  ELSE [src |-> <<"", "a", ItemNames[k]>>, dst |-> <<"", "l", ItemNames[k]>>]

RECURSIVE FilesIn(_, _)
FilesIn(d, n) ==
  IF n = 0 THEN EmptyFiles
  ELSE SetFile(FilesIn(d, n - 1), <<d, ItemNames[n]>>, Contents[n])

\* the disk and the servers a batch starts from: the first item's
\* destination is already there, the others' are not
BatchWorld(typ) ==
  IF typ = "upload"
  THEN World([dirs |-> {Root, A}, files |-> File(<<"a", "f">>, "r1")],
             [dirs |-> {Root, A}, files |-> File(<<"a", "f">>, "r2")],
             [dirs |-> {Root, L}, files |-> FilesIn("l", NItems)],
             "main", Root)
  ELSE World([dirs |-> {Root, A}, files |-> FilesIn("a", NItems)],
             [dirs |-> {Root, A}, files |-> FilesIn("a", NItems)],
             [dirs |-> {Root, L}, files |-> File(<<"l", "f">>, "old")],
             "main", Root)

\* upload_multiple / download_multiple called with the default makedirs
BatchCalls ==
  { [typ |-> t, force |-> fo, makedirs |-> (t = "download"),
     ftp |-> m.ftp, server |-> m.server, login |-> m.login] :
       t \in {"upload", "download"}, fo \in BOOLEAN, m \in ArgModes }

\* the failures the environment injects into the attempts of a batch
BatchFaults(typ) == IF typ = "upload" THEN {"none", "STOR"} ELSE {"none", "RETR"}

\* for i in range(CFG.get('retries', 5)): the loop is over after i attempts
\* a loop that takes one turn more than the budget
RetryExhausted_late(i) == i > Retries
RetryExhausted_early(i) == i + 1 >= Retries
RetryExhausted(i) == i >= Retries

\* the world after a call of a worker: its command log is dropped, and the
\* identity of a session the call opened and quit is free again
Settle(w0, w1) ==
  [w1 EXCEPT !.log = <<>>, !.fault = "none",
             !.sess = [s \in SessionIds |->
                         IF w0.sess[s].st = "unused" /\ w1.sess[s].st = "closed"
                         THEN NoSession ELSE w1.sess[s]]]

BatchInit ==
  /\ call \in BatchCalls
  /\ world = BatchWorld(call.typ)
  /\ items = [k \in ItemIds |-> ItemOf(call.typ, k)]
  /\ mainpc = "put" /\ loaded = 0
  /\ qbuf = <<>> /\ pipe = <<>> /\ poolState = "none"
  /\ pc = [w \in Workers |-> "none"]
  /\ wsess = [w \in Workers |-> NoFtp]
  /\ wdata = [w \in Workers |-> 0]
  /\ wi = [w \in Workers |-> 0]
  /\ wresult = [w \in Workers |-> <<>>]
  /\ result = <<>>
  /\ succ = [k \in ItemIds |-> FALSE]
  /\ takenBy = [k \in ItemIds |-> 0]
  /\ last = NoCall /\ prev = NoCall /\ nops = 0

\* _ftp_multiple ------------------------------------------------------------

\* for src, dst in files.items(): queue.put({...}) -- the whole loop; no
\* worker exists yet
MainPut ==
  /\ mainpc = "put" /\ loaded = 0
  /\ qbuf' = [k \in ItemIds |-> k]
  /\ loaded' = NItems
  /\ mainpc' = "pool"
  /\ UNCHANGED <<world, call, items, pipe, poolState, pc, wsess, wdata,
                 wi, wresult, result, succ, takenBy>>
  /\ UNCHANGED opsVars

\* the queue's feeder thread moves one buffered item into the pipe
Feed ==
  /\ qbuf # <<>>
  /\ pipe' = Append(pipe, Head(qbuf))
  /\ qbuf' = Tail(qbuf)
  /\ UNCHANGED <<world, mainpc, call, items, loaded, poolState, pc, wsess,
                 wdata, wi, wresult, result, succ, takenBy>>
  /\ UNCHANGED opsVars

\* a new pool process enters the initializer: with Ftp(ftp, server, login)
\* as ftp -- st is <<world, wsess, pc>> so far, r what Ftp(...) gave
Entered(st, w, r) ==
  <<[r.w EXCEPT !.log = <<>>],
    [st[2] EXCEPT ![w] = IF r.exc = "none" THEN r.ret ELSE NoFtp],
    [st[3] EXCEPT ![w] = IF r.exc = "none" THEN "check" ELSE "dead"]>>

Enter(st, w) ==
  Entered(st, w,
          Ftp_init(StartCall(st[1], "none"), call.ftp, call.server, call.login))

RECURSIVE EnterAll(_, _)
EnterAll(st, w) == IF w > Connections THEN st ELSE EnterAll(Enter(st, w), w + 1)

Started(st) == world' = st[1] /\ wsess' = st[2] /\ pc' = st[3]

\* pool = Pool(connections, worker, (queue, ftp, server, login, result)):
\* every process gets its own copy of the initargs, of result among them,
\* and starts the initializer
MainPool ==
  /\ mainpc = "pool"
  /\ poolState' = "RUN"
  /\ Started(EnterAll(<<world, wsess, pc>>, 1))
  /\ wresult' = [w \in Workers |-> result]
  /\ mainpc' = "queue_close"
  /\ UNCHANGED <<call, items, loaded, qbuf, pipe, wdata, wi,
                 result, succ, takenBy>>
  /\ UNCHANGED opsVars

\* queue.close(); queue.join_thread() returns once the buffer is flushed;
\* pool.close()
MainClose ==
  /\ mainpc = "queue_close" /\ qbuf = <<>>
  /\ poolState' = "CLOSE"
  /\ mainpc' = "join"
  /\ UNCHANGED <<world, call, items, loaded, qbuf, pipe, pc, wsess, wdata, wi,
                 wresult, result, succ, takenBy>>
  /\ UNCHANGED opsVars

\* pool.join(): the processes waiting for tasks get the sentinel of the
\* closed pool and leave; return result
MainJoin ==
  /\ mainpc = "join"
  /\ \A w \in Workers : pc[w] \in {"tasks", "dead"}
  /\ pc' = [w \in Workers |-> IF pc[w] = "tasks" THEN "exited" ELSE pc[w]]
  /\ mainpc' = "returned"
  /\ UNCHANGED <<world, call, items, loaded, qbuf, pipe, poolState, wsess,
                 wdata, wi, wresult, result, succ, takenBy>>
  /\ UNCHANGED opsVars

\* the worker processes ------------------------------------------------------

\* while not queue.empty(): ... ; leaving the loop leaves the with block
WCheck(w) ==
  /\ pc[w] = "check"
  /\ IF pipe # <<>>
     THEN /\ pc' = [pc EXCEPT ![w] = "get"]
          /\ world' = world
     ELSE LET r == Ftp_exit(StartCall(world, "none"), wsess[w])
          IN /\ world' = [r.w EXCEPT !.log = <<>>]
             /\ pc' = [pc EXCEPT ![w] = IF r.exc = "none" THEN "tasks" ELSE "dead"]
  /\ UNCHANGED <<mainpc, call, items, loaded, qbuf, pipe, poolState, wsess,
                 wdata, wi, wresult, result, succ, takenBy>>
  /\ UNCHANGED opsVars

\* data = queue.get(True): waits until the pipe holds an item
WGet(w) ==
  /\ pc[w] = "get"
  /\ pipe # <<>>
  /\ wdata' = [wdata EXCEPT ![w] = Head(pipe)]
  /\ pipe' = Tail(pipe)
  /\ takenBy' = [takenBy EXCEPT ![Head(pipe)] = @ + 1]
  /\ wi' = [wi EXCEPT ![w] = 0]
  /\ pc' = [pc EXCEPT ![w] = "try"]
  /\ UNCHANGED <<world, mainpc, call, items, loaded, qbuf, poolState, wsess,
                 wresult, result, succ>>
  /\ UNCHANGED opsVars

\* (wi is i, the number of failed turns of the running for loop, and wdata
\* the item of data; both are 0 outside the loop)
\* one turn of the for loop: upload/download(ftp=ftp, server=server,
\* login=login, close=False, **data); break on success, else log and sleep.
\* When the loop is over without a break, its else runs:
\* result.append(data.get('src')), then LOG.exception(e) with e unbound after
\* the except block: the UnboundLocalError leaves the with block
\* (Ftp.__exit__) and ends the process.
ItemArgs(w) ==
  [NoArgs EXCEPT !.src = items[wdata[w]].src, !.dst = items[wdata[w]].dst,
                 !.force = call.force, !.makedirs = call.makedirs,
                 !.ftp = wsess[w], !.server = call.server,
                 !.login = call.login, !.close = FALSE]

\* the turn of worker w on item k ended as r
Attempted(w, k, r) ==
  IF r.exc = "none"
  THEN /\ succ' = [succ EXCEPT ![k] = TRUE]
       /\ pc' = [pc EXCEPT ![w] = "check"]
       /\ world' = Settle(world, r.w)
       /\ wi' = [wi EXCEPT ![w] = 0]
       /\ wdata' = [wdata EXCEPT ![w] = 0]
       /\ UNCHANGED wresult
  ELSE IF ~RetryExhausted(wi[w] + 1)
  THEN /\ wi' = [wi EXCEPT ![w] = @ + 1]
       /\ world' = Settle(world, r.w)
       /\ UNCHANGED <<succ, pc, wresult, wdata>>
  ELSE /\ wi' = [wi EXCEPT ![w] = @ + 1]
       /\ wresult' = [wresult EXCEPT ![w] = Append(@, items[k].src)]
       /\ world' = [Ftp_exit(StartCall(Settle(world, r.w), "none"),
                             wsess[w]).w EXCEPT !.log = <<>>]
       /\ pc' = [pc EXCEPT ![w] = "dead"]
       /\ UNCHANGED <<succ, wdata>>

WAttempt(w) ==
  /\ pc[w] = "try"
  /\ \E f \in BatchFaults(call.typ) :
       Attempted(w, wdata[w], Apply(call.typ, ItemArgs(w), StartCall(world, f)))
  /\ UNCHANGED <<mainpc, call, items, loaded, qbuf, pipe, poolState, wsess,
                 result, takenBy>>
  /\ UNCHANGED opsVars

\* a running pool replaces a process that died by a new one, which runs the
\* initializer on a fresh copy of the initargs
Respawn(w) ==
  /\ pc[w] = "dead" /\ poolState = "RUN"
  /\ Started(Enter(<<world, wsess, pc>>, w))
  /\ wresult' = [wresult EXCEPT ![w] = result]
  /\ wdata' = [wdata EXCEPT ![w] = 0]
  /\ wi' = [wi EXCEPT ![w] = 0]
  /\ UNCHANGED <<mainpc, call, items, loaded, qbuf, pipe, poolState,
                 result, succ, takenBy>>
  /\ UNCHANGED opsVars

Next ==
  \/ MainPut \/ Feed \/ MainPool \/ MainClose \/ MainJoin
  \/ \E w \in Workers :
        \/ WCheck(w) \/ WGet(w) \/ WAttempt(w)
        \/ Respawn(w)

Spec == BatchInit /\ [][Next]_vars

-----------------------------------------------------------------------------
(* What a call is aimed at *)

SingleOps == {"ls", "is_dir", "mkdirs", "download", "upload"}
Issued(w, cmds) == \E i \in 1 .. Len(w.log) : w.log[i].cmd \in cmds

\* the server and the directory the call's session is at when the call starts
TargetSrv(a, w) ==
  IF a.ftp # NoFtp THEN w.sess[a.ftp].srv
  ELSE IF a.server # NoServer THEN CFG_server[a.server].host
  ELSE IF a.login # NoLogin THEN a.login[1].host
  ELSE "main"
TargetCwd(a, w) == IF a.ftp # NoFtp THEN w.sess[a.ftp].cwd ELSE Root
SessionUsable(a, w) == a.ftp = NoFtp \/ w.sess[a.ftp].st = "open"

-----------------------------------------------------------------------------
(* Properties of the batch engine *)

Returned(src)  == \E i \in 1 .. Len(result) : result[i] = src
BatchSrv       == TargetSrv(call, BatchWorld(call.typ))
Active(w)      == pc[w] \in {"check", "get", "try"}

\* the destination of item k holds what its source held when the batch began
Transferred(k) ==
  IF call.typ = "upload"
  THEN /\ Strip(items[k].dst) \in DOMAIN world.rfiles[BatchSrv]
       /\ world.rfiles[BatchSrv][Strip(items[k].dst)] = Contents[k]
  ELSE /\ Strip(items[k].dst) \in DOMAIN world.lfiles
       /\ world.lfiles[Strip(items[k].dst)] = Contents[k]

\* C1: when the batch call has returned, every item a worker took from the
\* queue is in the returned failure list or was fully transferred; so an item
\* whose every attempt failed is in the list the caller gets.
C1_FailedOrTransferred ==
  mainpc = "returned" =>
     \A k \in ItemIds :
        takenBy[k] >= 1 => (Returned(items[k].src) \/ Transferred(k))

\* C2: no worker ever waits in queue.get() on a queue that is empty for good
\* (nothing in the pipe, nothing left to flush), so that the pool join can
\* complete.
C2_NoWorkerBlocksOnEmptyQueue ==
  \A w \in Workers : pc[w] = "get" => (pipe # <<>> \/ qbuf # <<>>)

\* C3: when the batch call has returned, every item put on the queue was
\* taken and processed by exactly one worker.
C3_ExactlyOnce ==
  mainpc = "returned" => \A k \in ItemIds : takenBy[k] = 1

\* C4: an item recorded in a worker's failure collection has had exactly
\* Retries attempts made for it (the turns of that worker's for loop), and
\* none of them succeeded.
C4_FailedAfterAllRetries ==
  \A w \in Workers : \A i \in 1 .. Len(wresult[w]) :
     /\ wdata[w] \in ItemIds
     /\ wresult[w][i] = items[wdata[w]].src
     /\ wi[w] = Retries
     /\ ~succ[wdata[w]]
     /\ takenBy[wdata[w]] = 1

C4_Witness ==
  \E w \in Workers :
     /\ Len(wresult[w]) = 1 /\ wi[w] = Retries /\ pc[w] = "dead"
     /\ \E v \in Workers : v # w /\ wdata[v] # wdata[w] /\ pc[v] = "try"

\* C5: at no time do two workers work on the same session.
C5_OwnSessionPerWorker ==
  \A w1, w2 \in Workers :
     (w1 # w2 /\ Active(w1) /\ Active(w2)) => wsess[w1] # wsess[w2]

-----------------------------------------------------------------------------
(* Properties of the single calls *)

\* C6: a session the caller supplied (ftp=) is never quit by the call it is
\* passed to: it is still open when the call has returned or raised. Stated
\* for tree, for the Ftp guard and for the single-item calls asked to keep
\* the session (close=False).
C6_SuppliedSessionNeverQuit ==
  (/\ last.op \in {"tree", "with_Ftp"} \/ (last.op \in SingleOps /\ ~last.a.close)
   /\ last.a.ftp = Supplied /\ last.pre.sess[Supplied].st = "open")
     => /\ world.sess[Supplied].st = "open"
        /\ world.sess[Supplied].quits = 0

\* C7: a single-item call made without a session (and with the default
\* close=True) has, when it exits (return or raise), quit the session it
\* opened exactly once.
C7_OwnedSessionQuitOnce ==
  (last.op \in SingleOps /\ last.a.ftp = NoFtp /\ last.a.close)
     => \A s \in SessionIds :
           world.sess[s].owned =>
              world.sess[s].st = "closed" /\ world.sess[s].quits = 1

\* C8: is_dir with close=False that returns (True or False) leaves every
\* session's current working directory as it was before the call.
C8_IsDirRestoresCwd ==
  (last.op = "is_dir" /\ ~last.a.close /\ last.exc = "none")
     => \A s \in SessionIds : world.sess[s].cwd = last.pre.sess[s].cwd

C8_Witness ==
  /\ last.op = "is_dir" /\ ~last.a.close /\ last.exc = "none"
  /\ last.bool
  /\ last.a.ftp = Supplied
  /\ Canon(last.pre.sess[Supplied].cwd, last.a.path) # last.pre.sess[Supplied].cwd
  /\ Issued(world, {"CWD"})

\* C9: when mkdirs(path) is called again after a call that returned, the
\* second call issues no MKD, raises nothing and leaves the servers'
\* directory sets as the first call left them.
C9_MkdirsIdempotent ==
  (nops >= 2 /\ last.op = "mkdirs" /\ prev.exc = "none")
     => /\ last.exc = "none"
        /\ ~Issued(world, {"MKD"})
        /\ world.rdirs = last.pre.rdirs

C9_Witness ==
  /\ nops >= 2 /\ last.op = "mkdirs" /\ prev.exc = "none" /\ last.exc = "none"
  /\ Len(last.a.path) = 2
  /\ Cardinality(last.pre.rdirs[TargetSrv(prev.a, prev.pre)])
       = Cardinality(prev.pre.rdirs[TargetSrv(prev.a, prev.pre)]) + 1
  /\ Issued(world, {"CWD"})

\* C10: download or upload to a destination that exists, with force false:
\* no RETR/STOR is issued, no local file is opened, every file keeps its
\* content, the call raises, and what it raises is FileExistsError unless the
\* session fails first.
DstExists(op, a, w) ==
  IF op = "download" THEN os_path_isfile(w, a.dst)
  ELSE Canon(TargetCwd(a, w), a.dst) \in DOMAIN w.rfiles[TargetSrv(a, w)]

C10_NoOverwrite ==
  (last.op \in {"download", "upload"} /\ ~last.a.force
     /\ DstExists(last.op, last.a, last.pre))
     => /\ ~Issued(world, {"RETR", "STOR", "open"})
        /\ world.lfiles = last.pre.lfiles
        /\ world.rfiles = last.pre.rfiles
        /\ last.exc # "none"
        /\ (last.fault = "none" /\ SessionUsable(last.a, last.pre))
              => last.exc = "FileExistsError"

C10_Witness ==
  /\ last.op = "upload" /\ ~last.a.force
  /\ DstExists("upload", last.a, last.pre)
  /\ last.exc = "FileExistsError"
  /\ Issued(world, {"NLST"})
  /\ LX \in DOMAIN world.lfiles
  /\ world.lfiles[LX] # world.rfiles[TargetSrv(last.a, last.pre)]
                           [Canon(TargetCwd(last.a, last.pre), last.a.dst)]

C10_WitnessDownload ==
  /\ last.op = "download" /\ ~last.a.force
  /\ DstExists("download", last.a, last.pre)
  /\ last.exc = "FileExistsError"
  /\ Issued(world, {"TYPE"})

-----------------------------------------------------------------------------
(* Properties of the tree walk *)

Listed(list) == {list[i] : i \in 1 .. Len(list)}
TreeRootOf(a, w) == Canon(TargetCwd(a, w), a.src)
\* the files of server srv below directory c, at any depth
Under(w, srv, c) ==
  {q \in DOMAIN w.rfiles[srv] : Len(q) > Len(c) /\ SubSeq(q, 1, Len(c)) = c}
\* the path string a listing from p down to the segments segs gives
RECURSIVE JoinAll(_, _)
JoinAll(p, segs) ==
  IF segs = <<>> THEN p ELSE JoinAll(Join(p, Head(segs)), Tail(segs))
FilesBelow(a, w) ==
  { JoinAll(a.src, SubSeq(q, Len(TreeRootOf(a, w)) + 1, Len(q))) :
      q \in Under(w, TargetSrv(a, w), TreeRootOf(a, w)) }

\* C11: tree(root, pattern) on a directory root, run to its end, yields
\* exactly the files below root, at any depth, whose path matches the pattern
\* (all of them without a pattern), each once, and no directory.
C11_TreeYieldsMatchingFiles ==
  (/\ last.op = "tree" /\ last.exc = "none"
   /\ TreeRootOf(last.a, last.pre) \in last.pre.rdirs[TargetSrv(last.a, last.pre)])
     => /\ Listed(last.list)
             = {p \in FilesBelow(last.a, last.pre) : Matches(last.a.pattern, p)}
        /\ Len(last.list) = Cardinality(Listed(last.list))
        /\ \A p \in Listed(last.list) :
              Canon(TargetCwd(last.a, last.pre), p)
                 \notin last.pre.rdirs[TargetSrv(last.a, last.pre)]

C11_Witness ==
  /\ last.op = "tree" /\ last.exc = "none"
  /\ last.a.pattern # NoPattern
  /\ TreeRootOf(last.a, last.pre) \in last.pre.rdirs[TargetSrv(last.a, last.pre)]
  /\ Len(last.list) = 3
  /\ \E p \in Listed(last.list) : Len(Strip(p)) = 3
  /\ \E p \in FilesBelow(last.a, last.pre) : p \notin Listed(last.list)

-----------------------------------------------------------------------------
(* Further properties of the batch engine *)

\* C12: a worker that has used up the retries of an item and recorded its
\* source is still running its loop on its session (about to test the queue
\* or take the next item, or done with the queue): the failure of the item
\* has not ended the worker with an exception.
C12_WorkerSurvivesItemFailure ==
  \A w \in Workers :
     wresult[w] # <<>> =>
        /\ pc[w] \in {"check", "get", "try", "tasks", "exited"}
        /\ pc[w] \in {"check", "get", "try"} => world.sess[wsess[w]].st = "open"

\* the destination of item k holds the rest of a retrieval that broke off
PartialAt(k) ==
  /\ Strip(items[k].dst) \in DOMAIN world.lfiles
  /\ world.lfiles[Strip(items[k].dst)] = "partial"

\* C16: in a download batch, when a worker with an open session is in the
\* retry loop of an item whose destination a failed attempt left partially
\* written, the next attempt can succeed: it does when the retrieval works.
C16_PartialFileRedone ==
  \A w \in Workers :
     (/\ call.typ = "download" /\ pc[w] = "try" /\ wi[w] >= 1
      /\ PartialAt(wdata[w])
      /\ world.sess[wsess[w]].st = "open")
        => ENABLED (WAttempt(w) /\ succ'[wdata[w]])

\* C17: an item is taken by at most one worker, which starts an attempt on
\* it only while fewer than Retries attempts have failed and none has
\* succeeded, so that at most Retries attempts are made for it; and the
\* source of an item that succeeded is in no failure collection.
C17_AtMostRetriesAttempts ==
  /\ \A k \in ItemIds : takenBy[k] <= 1
  /\ \A w \in Workers :
        /\ wi[w] <= Retries
        /\ pc[w] = "try" =>
              /\ wi[w] < Retries
              /\ ~succ[wdata[w]]
              /\ \A v \in Workers : (v # w /\ pc[v] = "try") => wdata[v] # wdata[w]
  /\ \A k \in ItemIds :
        succ[k] =>
           /\ ~Returned(items[k].src)
           /\ \A w \in Workers : \A i \in 1 .. Len(wresult[w]) :
                 wresult[w][i] # items[k].src

C17_Witness ==
  \E w \in Workers :
     /\ pc[w] = "try" /\ wi[w] = Retries - 1
     /\ \E k \in ItemIds : succ[k] /\ takenBy[k] = 1 /\ k # wdata[w]

\* the sessions opened since the batch began (by the workers' Ftp guards)
OpenedSessions == {s \in SessionIds : world.sess[s].owned}

\* C18: when the batch call has returned, every session a worker's Ftp guard
\* opened has been quit, and quit once, whether its worker worked off the
\* queue, found it empty or died of an exception; none is still open.
C18_WorkerSessionsQuitOnce ==
  mainpc = "returned" =>
     \A s \in OpenedSessions :
        world.sess[s].st = "closed" /\ world.sess[s].quits = 1

C18_Witness ==
  /\ mainpc = "returned"
  /\ Cardinality(OpenedSessions) >= Connections + 1
  /\ \E w \in Workers : pc[w] = "dead" /\ wresult[w] # <<>>
  /\ \E w \in Workers : pc[w] = "exited"

-----------------------------------------------------------------------------
(* Properties of session resolution *)

\* the sessions the call sent NLST on
UsedSessions(w) ==
  {w.log[i].s : i \in {j \in 1 .. Len(w.log) : w.log[j].cmd = "NLST"}}

\* the login descriptor the precedence session > server > login > default
\* picks when no session is given
ChosenLogin(a) ==
  IF a.server # NoServer THEN CFG_server[a.server]
  ELSE IF a.login # NoLogin THEN a.login[1]
  ELSE CFG_server["main"]

\* C13: a decorated function (ls) and the Ftp guard, given any combination
\* of ftp, server and login, both work on the session given as ftp if there
\* is one, else on a new session to the named server of the configuration,
\* else on a new session made from login, else on a new session to the
\* default server 'main' (TLS unless the descriptor says false).
C13_ResolutionPrecedence ==
  (last.op \in {"ls", "with_Ftp"})
     => /\ Cardinality(UsedSessions(world)) = 1
        /\ \A s \in UsedSessions(world) :
              IF last.a.ftp # NoFtp
              THEN s = last.a.ftp
              ELSE /\ last.pre.sess[s].st = "unused"
                   /\ world.sess[s].srv = ChosenLogin(last.a).host
                   /\ world.sess[s].tls = (ChosenLogin(last.a).tls # "false")

C13_Witness ==
  /\ last.op = "with_Ftp"
  /\ last.a.ftp = NoFtp /\ last.a.server = "main" /\ last.a.login = <<AltLogin>>
  /\ \E s \in UsedSessions(world) : world.sess[s].srv = "main" /\ world.sess[s].tls

-----------------------------------------------------------------------------
(* Further properties of the single calls *)

\* the directories the MKD commands before the i-th command of the log name
MadeBefore(w, cur, i) ==
  {Canon(cur, w.log[j].arg) : j \in {k \in 1 .. i - 1 : w.log[k].cmd = "MKD"}}

\* C14: every MKD that mkdirs issues (called directly, or by upload for the
\* parent of dst) names a directory whose parent is a directory at that
\* moment: it was one before the call or an earlier MKD of the call made it.
C14_MkdirsParentFirst ==
  (last.op \in {"mkdirs", "upload"})
     => \A i \in 1 .. Len(world.log) :
           world.log[i].cmd = "MKD" =>
              Parent(Canon(TargetCwd(last.a, last.pre), world.log[i].arg))
                 \in last.pre.rdirs[TargetSrv(last.a, last.pre)]
                       \cup MadeBefore(world, TargetCwd(last.a, last.pre), i)

C14_Witness ==
  /\ last.op = "mkdirs" /\ last.exc = "none"
  /\ IsAbs(last.a.path)
  /\ Cardinality(MadeBefore(world, TargetCwd(last.a, last.pre),
                            Len(world.log) + 1)) = 2
  /\ world.rdirs # last.pre.rdirs

\* C15: when the CWD that is_dir sends fails, because the path is no
\* directory or because the server answers with any other failure, is_dir
\* returns False and raises nothing.
C15_CwdFailureMeansFalse ==
  (/\ last.op = "is_dir" /\ Issued(world, {"CWD"})
   /\ \/ last.fault = "CWD"
      \/ Canon(TargetCwd(last.a, last.pre), last.a.path)
            \notin last.pre.rdirs[TargetSrv(last.a, last.pre)])
     => (last.exc = "none" /\ ~last.bool)

\* the sessions the call connected or sent a command on
RemoteSessions(w) ==
  {w.log[i].s : i \in {j \in 1 .. Len(w.log) : w.log[j].cmd # "open"}}

\* C19: upload connects and sends all its commands (NLST, PWD, CWD, MKD,
\* TYPE, STOR) on one session, the one it was given or resolved: no second
\* session appears in the call, and every command goes to the server of
\* that session.
C19_UploadOneSession ==
  (last.op = "upload")
     => /\ Cardinality(RemoteSessions(world)) <= 1
        /\ \A s \in RemoteSessions(world) :
              world.sess[s].srv = TargetSrv(last.a, last.pre)

====
